---- MODULE Spec2Model ----
(***************************************************************************)
(* Model of the compute-attest-submit job of the parallel-exec EigenLayer  *)
(* blueprint: ApiClient::get_calculation (api_client.rs) and the job       *)
(* calculate_task with operator_id_from_key and its event pre-processor    *)
(* convert_event_to_inputs (jobs/compute_x_square.rs), run alone, after    *)
(* the pre-processor, and as two concurrent invocations.                   *)
(*                                                                         *)
(* Strings are sequences of Unicode code points, byte strings sequences of *)
(* integers 0..255.  keccak256 is modelled as an injective digest: a B256  *)
(* value is the record [preimage |-> m], and B256Bytes gives its 32 bytes. *)
(* Option and Result values are sequences of length 0 (None/Err) or 1.     *)
(***************************************************************************)
EXTENDS Integers, Sequences, FiniteSets, TLC

VARIABLES
    pc,                 \* position of the run inside calculate_task
    event,              \* <<NewTaskCreated>> that triggers the run, <<>> if none
    inputs,             \* <<result>> once the pre-processor returned
    parked,             \* <<locals>> of a second run while it is not running
    task_created_block, \* job parameter (u32)
    quorum_numbers,     \* job parameter (Bytes)
    quorum_threshold_percentage, \* job parameter (u8)
    task_index,         \* job parameter (u32)
    keystore,           \* the keystore collaborator: local BLS entries, in order
    http,               \* what the data source answered (<<>> until it answers)
    fetched,            \* Result of api_client.get_calculation(): <<>> pending
    result_hash,        \* <<h>> once line 52 bound it
    task_response,      \* <<TaskResponse>> once built
    bn254_public,       \* <<pk>> once first_local returned
    bn254_secret,       \* <<sk>> once the keystore exposed it
    bls_key_pair,       \* <<pair>> once BlsKeyPair::new succeeded
    operator_id,        \* <<id>> once derived
    encoded,            \* <<bytes>>: abi_encode(&task_response)
    msg_hash,           \* <<h>>: keccak256 of the encoding
    signed_response,    \* <<SignedTaskResponse>> once assembled
    aggregator,         \* what the aggregator received, in order
    gets,               \* number of HTTP GETs issued by the run
    submits,            \* number of send_signed_task_response calls issued
    send_result,        \* <<ok>> once the aggregator client answered
    stages,             \* stages completed so far, in order
    ret                 \* <<code>> once the job returned Ok(code)

vars == <<pc, event, inputs, parked, task_created_block, quorum_numbers, quorum_threshold_percentage,
          task_index, keystore, http, fetched, result_hash, task_response,
          bn254_public, bn254_secret, bls_key_pair, operator_id, encoded,
          msg_hash, signed_response, aggregator, gets, submits, send_result,
          stages, ret>>

----------------------------------------------------------------------------
(* Bounds of the model. *)

\* longest `data` list a response carries
MaxBlocks == 2

\* longest `hash` string of a block, in characters
MaxHashLen == 2

\* characters block hashes are made of: 'a' (one UTF-8 byte), U+00E9 (two)
Alphabet == {97, 233}

SeqsUpTo(S, n) == UNION {[1..k -> S] : k \in 0..n}

----------------------------------------------------------------------------
(* Byte-level helpers. *)

\* str::as_bytes of one character: its UTF-8 encoding (code points < 0x800)
Utf8Char(c) ==
    IF c < 128 THEN <<c>>
    ELSE <<192 + (c \div 64), 128 + (c % 64)>>

RECURSIVE as_bytes(_)
\* str::as_bytes: the UTF-8 bytes of a string
as_bytes(s) ==
    IF s = <<>> THEN <<>>
    ELSE Utf8Char(Head(s)) \o as_bytes(Tail(s))

\* width of alloy's FixedBytes<32> (B256), the output of keccak256
B256Len == 32

\* alloy_primitives::keccak256, as an injective digest of its input bytes
keccak256(bytes) == [preimage |-> bytes]

\* the 32 bytes of a B256 value; byte i of a digest is the symbol <<preimage, i>>
B256Bytes(h) == [i \in 1..B256Len |-> <<h.preimage, i>>]

----------------------------------------------------------------------------
(* api_client.rs: the data model and ApiClient::get_calculation. *)

\* the four fields of a Block that are deserialized next to `hash`
OtherFields ==
    { [number |-> <<49>>, timestamp |-> <<49, 48>>,
       transactions_root |-> <<97>>, parent_hash |-> <<>>],
      [number |-> <<50>>, timestamp |-> <<50, 48>>,
       transactions_root |-> <<233>>, parent_hash |-> <<97>>] }

\* struct Block
Block(h, o) ==
    [hash |-> h, number |-> o.number, timestamp |-> o.timestamp,
     transactions_root |-> o.transactions_root, parent_hash |-> o.parent_hash]

\* struct ApiResponse
ApiResponse(st, msg, data) == [status |-> st, message |-> msg, data |-> data]

\* (status, message) pairs of the envelopes the model draws: "ok"/"" and "err"/"e"
EnvelopeHeads == { <<<<111, 107>>, <<>>>>, <<<<101, 114, 114>>, <<101>>>> }

\* the envelopes over the given hash strings and field variants
Envelopes(hashes, others, heads, n) ==
    { ApiResponse(hd[1], hd[2], d) :
        hd \in heads,
        d \in SeqsUpTo({Block(h, o) : h \in hashes, o \in others}, n) }

\* placeholder envelope of an outcome that carries none
NoEnvelope == ApiResponse(<<>>, <<>>, <<>>)

\* HTTP status codes the data source answers with
StatusCodes == {200, 500}

\* an answer of the data source: send() failed ("connect", "timeout"), or a
\* response with a status code and a body that deserializes or does not
SendFailures ==
    { [kind |-> k, status |-> 0, parsable |-> FALSE, envelope |-> NoEnvelope] :
        k \in {"connect", "timeout"} }

Responses(envs) ==
    { [kind |-> "response", status |-> st, parsable |-> TRUE, envelope |-> e] :
        st \in StatusCodes, e \in envs }
    \cup
    { [kind |-> "response", status |-> st, parsable |-> FALSE,
       envelope |-> NoEnvelope] : st \in StatusCodes }

\* every answer within the bounds: the inputs of the reduction
AllHttpOutcomes ==
    SendFailures \cup
    Responses(Envelopes(SeqsUpTo(Alphabet, MaxHashLen), OtherFields,
                        EnvelopeHeads, MaxBlocks))

\* hash strings of the answers the whole job is run against
SampleHashes == { <<97>>, <<97, 233>> }

\* the answers the whole job is run against
JobHttpOutcomes ==
    SendFailures \cup
    Responses(Envelopes(SampleHashes, {CHOOSE o \in OtherFields : o.number = <<49>>},
                        {CHOOSE hd \in EnvelopeHeads : hd[2] = <<>>}, MaxBlocks))

Ok(v) == [ok |-> TRUE, val |-> <<v>>]
Err == [ok |-> FALSE, val |-> <<>>]

RECURSIVE join(_, _)
\* [&str]::join(sep): the elements in order, sep between neighbours
join(v, sep) ==
    IF v = <<>> THEN <<>>
    ELSE IF Len(v) = 1 THEN v[1]
    ELSE v[1] \o sep \o join(Tail(v), sep)

RECURSIVE LexLess(_, _)
\* a sorts before b in the order of str
LexLess(a, b) ==
    IF b = <<>> THEN FALSE
    ELSE IF a = <<>> THEN TRUE
    ELSE IF Head(a) # Head(b) THEN Head(a) < Head(b)
    ELSE LexLess(Tail(a), Tail(b))

\* the block hashes sorted before they are joined
BlockHashesSorted(data) ==
    SortSeq([i \in 1..Len(data) |-> data[i].hash], LexLess)

\* response.data.iter().map(|block| block.hash.as_str()).collect::<Vec<&str>>()
BlockHashes(data) == [i \in 1..Len(data) |-> data[i].hash]

\* the block hashes joined with a comma between them
combined_comma(response) == join(BlockHashes(response.data), <<44>>)

\* lines 52-57: the block hashes joined with the empty separator
combined(response) == join(BlockHashes(response.data), <<>>)

\* a reduction that rejects an envelope without records
get_calculation_nonempty(o) ==
    IF o.kind # "response" THEN Err
    ELSE IF ~o.parsable THEN Err
    ELSE IF o.envelope.data = <<>> THEN Err
    ELSE Ok(keccak256(as_bytes(combined(o.envelope))))

\* ApiClient::get_calculation on the answer o of the data source:
\* send().await? fails on a transport failure, json().await? on a body that
\* does not deserialize; the status code is not looked at
get_calculation(o) ==
    IF o.kind # "response" THEN Err
    ELSE IF ~o.parsable THEN Err
    ELSE Ok(keccak256(as_bytes(combined(o.envelope))))

----------------------------------------------------------------------------
(* jobs/compute_x_square.rs: values built by calculate_task. *)

\* struct TaskResponse { uint32 referenceTaskIndex; bytes32 resultHash; }
TaskResponse(idx, h) == [referenceTaskIndex |-> idx, resultHash |-> h]

RECURSIVE BeBytes(_, _)
\* the w low-order bytes of n, most significant first
BeBytes(n, w) ==
    IF w = 0 THEN <<>>
    ELSE BeBytes(n \div 256, w - 1) \o <<n % 256>>

\* size of one ABI word; every static member is encoded into one word
AbiWord == 32

\* a uint32 encoded in its own 4 bytes, as abi_encode_packed does
AbiUintPacked(n) == BeBytes(n, 4)

\* ABI encoding of a uintN: the value as a big-endian 32-byte word
AbiUint(n) == BeBytes(n, AbiWord)

\* <TaskResponse as SolType>::abi_encode: a static struct is the
\* concatenation of its members' words, uint32 then bytes32
abi_encode(tr) == AbiUint(tr.referenceTaskIndex) \o B256Bytes(tr.resultHash)

\* BLS key pairs the keystore may hold: secret scalar and the affine
\* coordinates of the G1 public key
KeyPairs ==
    { [secret |-> 1, g1 |-> [x |-> 1, y |-> 2]],
      [secret |-> 2, g1 |-> [x |-> 258, y |-> 3]] }

\* coordinate values of further public keys, of one, two and three bytes
CoordSeq == <<1, 2, 3, 255, 256, 258, 515, 770, 66051>>

\* KeyPairs and a key pair for every pair of further coordinates
AllKeyPairs ==
    KeyPairs \cup
    { k \in { [secret |-> 10 * i + j, g1 |-> [x |-> CoordSeq[i], y |-> CoordSeq[j]]] :
                i \in 1..Len(CoordSeq), j \in 1..Len(CoordSeq) } :
        \A l \in KeyPairs : l.g1 # k.g1 }

\* the public key of a secret
PublicKeyOf(sk) == (CHOOSE k \in AllKeyPairs : k.secret = sk).g1

\* BlsKeyPair::new on a well-formed secret
BlsKeyPair(sk) == [priv_key |-> sk, pub_key |-> PublicKeyOf(sk)]

\* BlsKeyPair::sign_message: a BLS signature of `message` under the pair's secret
sign_message(pair, message) == [signer |-> pair.priv_key, message |-> message]

\* a coordinate serialized into a fixed 32 bytes
to_bytes_be_padded(n) == BeBytes(n, 32)

RECURSIVE to_bytes_be(_)
\* BigUint::to_bytes_be: minimal-length big-endian bytes, zero is one 0 byte
to_bytes_be(n) ==
    IF n < 256 THEN <<n>>
    ELSE to_bytes_be(n \div 256) \o <<n % 256>>

\* operator_id_from_key
operator_id_from_key(key) ==
    LET x_bytes == to_bytes_be(key.pub_key.x)
        y_bytes == to_bytes_be(key.pub_key.y)
    IN  keccak256(x_bytes \o y_bytes)

\* struct SignedTaskResponse
SignedTaskResponse(tr, sig, id) ==
    [task_response |-> tr, signature |-> sig, operator_id |-> id]

\* a keystore entry: a local BLS public key and its secret
KeyEntry(k) == [public |-> k.g1, secret |-> k.secret]

\* keystores the run may find: none, one or two local keys
Keystores ==
    { <<>> } \cup { <<KeyEntry(k)>> : k \in KeyPairs }
    \cup { <<KeyEntry(p[1]), KeyEntry(p[2])>> :
             p \in {q \in KeyPairs \X KeyPairs : q[1] # q[2]} }

\* task indices the runs are given (u32)
TaskIndices == {0, 42, 16909060}

\* order of the stages of one run
StageOrder ==
    <<"fetch", "build", "secret", "key_pair", "operator_id", "hash", "sign",
      "submit">>

----------------------------------------------------------------------------
(* The run of calculate_task, one action per step. *)

\* the locals of a run that has not started
InitLocals ==
    /\ http = <<>>
    /\ fetched = <<>>
    /\ result_hash = <<>>
    /\ task_response = <<>>
    /\ bn254_public = <<>>
    /\ bn254_secret = <<>>
    /\ bls_key_pair = <<>>
    /\ operator_id = <<>>
    /\ encoded = <<>>
    /\ msg_hash = <<>>
    /\ signed_response = <<>>
    /\ gets = 0
    /\ submits = 0
    /\ send_result = <<>>
    /\ stages = <<>>
    /\ ret = <<>>

Init ==
    /\ pc = "start"
    /\ task_created_block \in {0, 7}
    /\ quorum_numbers \in {<<0>>, <<0, 1>>}
    /\ quorum_threshold_percentage \in {67, 100}
    /\ task_index \in TaskIndices
    /\ keystore \in Keystores
    /\ aggregator = <<>>
    /\ event = <<>>
    /\ inputs = <<>>
    /\ parked = <<>>
    /\ InitLocals

params == <<task_created_block, quorum_numbers, quorum_threshold_percentage,
            task_index>>

\* what no step of calculate_task touches: the event, the pre-processor's
\* result and the locals of another run
ambient == <<event, inputs, parked>>

\* api_client.rs 43-45: the GET is sent and the run suspends on it
IssueGet ==
    /\ pc = "start"
    /\ pc' = "fetching"
    /\ gets' = gets + 1
    /\ UNCHANGED <<ambient, params, send_result, keystore,
                   http, fetched, result_hash, task_response,
                   bn254_public, bn254_secret, bls_key_pair, operator_id,
                   encoded, msg_hash, signed_response, aggregator, submits,
                   stages, ret>>

\* a failed fetch that is tried again instead of ending the run
GetAnsweredRetry(o) ==
    /\ pc = "fetching"
    /\ http' = <<o>>
    /\ fetched' = <<get_calculation(o)>>
    /\ IF get_calculation(o).ok
       THEN /\ result_hash' = get_calculation(o).val
            /\ stages' = Append(stages, "fetch")
            /\ pc' = "build"
       ELSE /\ pc' = "start"
            /\ UNCHANGED <<result_hash, stages>>
    /\ UNCHANGED <<ambient, params, send_result, keystore,
                   task_response, bn254_public, bn254_secret,
                   bls_key_pair, operator_id, encoded, msg_hash, signed_response,
                   aggregator, gets, submits, ret>>

\* a failed fetch that is logged and then carried on from with a default hash
GetAnsweredContinue(o) ==
    /\ pc = "fetching"
    /\ http' = <<o>>
    /\ fetched' = <<get_calculation(o)>>
    /\ result_hash' = IF get_calculation(o).ok THEN get_calculation(o).val
                      ELSE <<keccak256(<<>>)>>
    /\ stages' = Append(stages, "fetch")
    /\ pc' = "build"
    /\ UNCHANGED <<ambient, params, send_result, keystore,
                   task_response, bn254_public, bn254_secret,
                   bls_key_pair, operator_id, encoded, msg_hash, signed_response,
                   aggregator, gets, submits, ret>>

\* compute_x_square.rs 52-61: the data source answered with o;
\* Ok(result) binds result_hash, Err(e) returns Ok(0)
GetAnswered(o) ==
    /\ pc = "fetching"
    /\ http' = <<o>>
    /\ fetched' = <<get_calculation(o)>>
    /\ IF get_calculation(o).ok
       THEN /\ result_hash' = get_calculation(o).val
            /\ stages' = Append(stages, "fetch")
            /\ pc' = "build"
            /\ ret' = ret
       ELSE /\ pc' = "returned"
            /\ ret' = <<0>>
            /\ UNCHANGED <<result_hash, stages>>
    /\ UNCHANGED <<ambient, params, send_result, keystore,
                   task_response, bn254_public, bn254_secret,
                   bls_key_pair, operator_id, encoded, msg_hash, signed_response,
                   aggregator, gets, submits>>

\* a response that refers to the block the task was created in
BuildTaskResponseBlock ==
    /\ pc = "build"
    /\ task_response' = <<TaskResponse(task_created_block, result_hash[1])>>
    /\ stages' = Append(stages, "build")
    /\ pc' = "first_local"
    /\ UNCHANGED <<ambient, params, send_result, keystore,
                   http, fetched, result_hash, bn254_public,
                   bn254_secret, bls_key_pair, operator_id, encoded, msg_hash,
                   signed_response, aggregator, gets, submits, ret>>

\* compute_x_square.rs 64-67
BuildTaskResponse ==
    /\ pc = "build"
    /\ task_response' = <<TaskResponse(task_index, result_hash[1])>>
    /\ stages' = Append(stages, "build")
    /\ pc' = "first_local"
    /\ UNCHANGED <<ambient, params, send_result, keystore,
                   http, fetched, result_hash, bn254_public,
                   bn254_secret, bls_key_pair, operator_id, encoded, msg_hash,
                   signed_response, aggregator, gets, submits, ret>>

\* Keystore::first_local: the first local BLS public key, Err when there is none
first_local(ks) == IF ks = <<>> THEN Err ELSE Ok(ks[1].public)

\* compute_x_square.rs 70: first_local::<ArkBlsBn254>().unwrap() panics on Err
FirstLocal ==
    /\ pc = "first_local"
    /\ IF first_local(keystore).ok
       THEN /\ bn254_public' = first_local(keystore).val
            /\ pc' = "expose"
       ELSE /\ pc' = "panicked"
            /\ UNCHANGED bn254_public
    /\ UNCHANGED <<ambient, params, send_result, keystore,
                   http, fetched, result_hash, task_response,
                   bn254_secret, bls_key_pair, operator_id, encoded, msg_hash,
                   signed_response, aggregator, gets, submits, stages, ret>>

\* what expose_bls_bn254_secret answers for a public key: the secret stored
\* with it, no secret, or a keystore error
ExposeAnswers(ks, pk) ==
    { [ok |-> TRUE, val |-> <<<<ks[i].secret>>>>] :
        i \in {j \in 1..Len(ks) : ks[j].public = pk} }
    \cup { [ok |-> TRUE, val |-> <<<<>>>>], Err }

\* compute_x_square.rs 71-77: Ok(Some(s)) binds the secret, Ok(None) and
\* Err(_) return Ok(0)
ExposeSecret ==
    /\ pc = "expose"
    /\ \E a \in ExposeAnswers(keystore, bn254_public[1]) :
         IF a.ok /\ a.val[1] # <<>>
         THEN /\ bn254_secret' = a.val[1]
              /\ stages' = Append(stages, "secret")
              /\ pc' = "new_pair"
              /\ ret' = ret
         ELSE /\ pc' = "returned"
              /\ ret' = <<0>>
              /\ UNCHANGED <<bn254_secret, stages>>
    /\ UNCHANGED <<ambient, params, send_result, keystore,
                   http, fetched, result_hash, task_response,
                   bn254_public, bls_key_pair, operator_id, encoded, msg_hash,
                   signed_response, aggregator, gets, submits>>

\* compute_x_square.rs 78-81: BlsKeyPair::new(secret.to_string()) may reject
\* the string; Ok(pair) binds the pair, Err(_) returns Ok(0)
NewKeyPair(accepted) ==
    /\ pc = "new_pair"
    /\ IF accepted
       THEN /\ bls_key_pair' = <<BlsKeyPair(bn254_secret[1])>>
            /\ stages' = Append(stages, "key_pair")
            /\ pc' = "operator_id"
            /\ ret' = ret
       ELSE /\ pc' = "returned"
            /\ ret' = <<0>>
            /\ UNCHANGED <<bls_key_pair, stages>>
    /\ UNCHANGED <<ambient, params, send_result, keystore,
                   http, fetched, result_hash, task_response,
                   bn254_public, bn254_secret, operator_id, encoded, msg_hash,
                   signed_response, aggregator, gets, submits>>

\* an operator id derived from the last local key instead of the signing pair
DeriveOperatorIdLastKey ==
    /\ pc = "operator_id"
    /\ operator_id' =
         <<operator_id_from_key(BlsKeyPair(keystore[Len(keystore)].secret))>>
    /\ stages' = Append(stages, "operator_id")
    /\ pc' = "hash"
    /\ UNCHANGED <<ambient, params, send_result, keystore,
                   http, fetched, result_hash, task_response,
                   bn254_public, bn254_secret, bls_key_pair, encoded, msg_hash,
                   signed_response, aggregator, gets, submits, ret>>

\* compute_x_square.rs 82
DeriveOperatorId ==
    /\ pc = "operator_id"
    /\ operator_id' = <<operator_id_from_key(bls_key_pair[1])>>
    /\ stages' = Append(stages, "operator_id")
    /\ pc' = "hash"
    /\ UNCHANGED <<ambient, params, send_result, keystore,
                   http, fetched, result_hash, task_response,
                   bn254_public, bn254_secret, bls_key_pair, encoded, msg_hash,
                   signed_response, aggregator, gets, submits, ret>>

\* compute_x_square.rs 85: keccak256 of the ABI encoding of the response
HashResponse ==
    /\ pc = "hash"
    /\ encoded' = <<abi_encode(task_response[1])>>
    /\ msg_hash' = <<keccak256(abi_encode(task_response[1]))>>
    /\ stages' = Append(stages, "hash")
    /\ pc' = "sign"
    /\ UNCHANGED <<ambient, params, send_result, keystore,
                   http, fetched, result_hash, task_response,
                   bn254_public, bn254_secret, bls_key_pair, operator_id,
                   signed_response, aggregator, gets, submits, ret>>

\* a response whose signature is over the commitment instead of the digest
SignResponseCommitment ==
    /\ pc = "sign"
    /\ signed_response' =
         <<SignedTaskResponse(task_response[1],
                              sign_message(bls_key_pair[1], result_hash[1]),
                              operator_id[1])>>
    /\ stages' = Append(stages, "sign")
    /\ pc' = "send"
    /\ UNCHANGED <<ambient, params, send_result, keystore,
                   http, fetched, result_hash, task_response,
                   bn254_public, bn254_secret, bls_key_pair, operator_id,
                   encoded, msg_hash, aggregator, gets, submits, ret>>

\* compute_x_square.rs 86-90: the digest is signed and the response assembled
SignResponse ==
    /\ pc = "sign"
    /\ signed_response' =
         <<SignedTaskResponse(task_response[1],
                              sign_message(bls_key_pair[1], msg_hash[1]),
                              operator_id[1])>>
    /\ stages' = Append(stages, "sign")
    /\ pc' = "send"
    /\ UNCHANGED <<ambient, params, send_result, keystore,
                   http, fetched, result_hash, task_response,
                   bn254_public, bn254_secret, bls_key_pair, operator_id,
                   encoded, msg_hash, aggregator, gets, submits, ret>>

\* compute_x_square.rs 96: send_signed_task_response is called with the
\* signed response and the run suspends on it
SendSigned ==
    /\ pc = "send"
    /\ aggregator' = aggregator \o signed_response
    /\ submits' = submits + 1
    /\ stages' = Append(stages, "submit")
    /\ pc' = "sending"
    /\ UNCHANGED <<ambient, params, send_result, keystore,
                   http, fetched, result_hash, task_response,
                   bn254_public, bn254_secret, bls_key_pair, operator_id,
                   encoded, msg_hash, signed_response, gets, ret>>

\* compute_x_square.rs 96-101: Err(e) gives Ok(0), otherwise Ok(1)
SendOutcome(ok) == IF ok THEN 1 ELSE 0

\* a failed submission that is sent again instead of ending the run
SendAnsweredRetry(ok) ==
    /\ pc = "sending"
    /\ send_result' = <<ok>>
    /\ IF ok
       THEN pc' = "returned" /\ ret' = <<1>>
       ELSE pc' = "send" /\ ret' = ret
    /\ UNCHANGED <<ambient, params, keystore, http, fetched, result_hash, task_response,
                   bn254_public, bn254_secret, bls_key_pair, operator_id,
                   encoded, msg_hash, signed_response, aggregator, gets,
                   submits, stages>>

\* compute_x_square.rs 96-101: the aggregator client answered
SendAnswered(ok) ==
    /\ pc = "sending"
    /\ send_result' = <<ok>>
    /\ pc' = "returned"
    /\ ret' = <<SendOutcome(ok)>>
    /\ UNCHANGED <<ambient, params, keystore, http, fetched, result_hash, task_response,
                   bn254_public, bn254_secret, bls_key_pair, operator_id,
                   encoded, msg_hash, signed_response, aggregator, gets,
                   submits, stages>>

\* the data source answers the pending GET of a run of the job
Answer ==
    /\ pc = "fetching"
    /\ \E o \in JobHttpOutcomes : GetAnswered(o)

Next ==
    \/ IssueGet
    \/ Answer
    \/ BuildTaskResponse
    \/ FirstLocal
    \/ ExposeSecret
    \/ \E accepted \in BOOLEAN : NewKeyPair(accepted)
    \/ DeriveOperatorId
    \/ HashResponse
    \/ SignResponse
    \/ SendSigned
    \/ \E ok \in BOOLEAN : SendAnswered(ok)

Spec == Init /\ [][Next]_vars

----------------------------------------------------------------------------
(* The reduction alone: get_calculation applied to every answer within the *)
(* bounds.                                                                 *)

InitReduce ==
    /\ Init
    /\ task_created_block = 0
    /\ quorum_numbers = <<0>>
    /\ quorum_threshold_percentage = 67
    /\ task_index = 0
    /\ keystore = <<>>

\* the data source answers the pending GET with any answer within the bounds
AnswerAny ==
    /\ pc = "fetching"
    /\ \E o \in AllHttpOutcomes : GetAnswered(o)

NextReduce ==
    \/ IssueGet
    \/ AnswerAny

SpecReduce == InitReduce /\ [][NextReduce]_vars

----------------------------------------------------------------------------
(* One run under the scheduling of the runtime: a run that can take a step *)
(* takes it.                                                               *)

\* the HTTP client is built with a 10 second timeout, so that the pending
\* GET is answered, by a response or by a timeout error
FetchFairness == WF_vars(IssueGet) /\ WF_vars(Answer)

\* the runtime polls the run, so that the steps between the two suspension
\* points are taken
StepFairness ==
    /\ WF_vars(BuildTaskResponse)
    /\ WF_vars(FirstLocal)
    /\ WF_vars(ExposeSecret)
    /\ WF_vars(\E accepted \in BOOLEAN : NewKeyPair(accepted))
    /\ WF_vars(DeriveOperatorId)
    /\ WF_vars(HashResponse)
    /\ WF_vars(SignResponse)
    /\ WF_vars(SendSigned)

\* the aggregator client answers the pending submission, with Ok or with an
\* error once its timeout has passed
SubmitFairness == WF_vars(\E ok \in BOOLEAN : SendAnswered(ok))

SpecLive == Init /\ [][Next]_vars /\ FetchFairness /\ StepFairness /\ SubmitFairness

----------------------------------------------------------------------------
(* The event pre-processor convert_event_to_inputs and the job it feeds.   *)

\* event NewTaskCreated(taskIndex, task) with struct Task
NewTaskCreated(idx, block, quorums, threshold) ==
    [taskIndex |-> idx,
     task |-> [taskCreatedBlock |-> block, quorumNumbers |-> quorums,
               quorumThresholdPercentage |-> threshold]]

\* events the listener delivers; the threshold is wider than 8 bits
Events ==
    { NewTaskCreated(idx, block, quorums, threshold) :
        idx \in {0, 42}, block \in {0, 7}, quorums \in {<<0>>, <<0, 1>>},
        threshold \in {67, 255, 256, 300} }

\* u8::try_from: Err when the value does not fit in 8 bits
u8_try_from(n) == IF n \in 0..255 THEN Ok(n) ELSE Err

\* a pre-processor that returns the task index first
convert_event_to_inputs_index_first(ev) ==
    LET task_index_ == ev.taskIndex
        task_created_block_ == ev.task.taskCreatedBlock
        quorum_numbers_ == ev.task.quorumNumbers
        threshold == u8_try_from(ev.task.quorumThresholdPercentage)
    IN  IF ~threshold.ok
        THEN [panic |-> TRUE, ret |-> <<>>]
        ELSE [panic |-> FALSE,
              ret |-> <<Ok(<< <<task_index_, quorum_numbers_,
                                threshold.val[1], task_created_block_>> >>)>>]

\* convert_event_to_inputs: unwrap() panics when the threshold does not fit;
\* otherwise Ok(Some((task_created_block, quorum_numbers,
\* quorum_threshold_percentage, task_index)))
convert_event_to_inputs(ev) ==
    LET task_index_ == ev.taskIndex
        task_created_block_ == ev.task.taskCreatedBlock
        quorum_numbers_ == ev.task.quorumNumbers
        threshold == u8_try_from(ev.task.quorumThresholdPercentage)
    IN  IF ~threshold.ok
        THEN [panic |-> TRUE, ret |-> <<>>]
        ELSE [panic |-> FALSE,
              ret |-> <<Ok(<< <<task_created_block_, quorum_numbers_,
                                threshold.val[1], task_index_>> >>)>>]

\* compute_x_square.rs 31-40: the listener runs the pre-processor on the
\* event; Ok(Some(t)) starts the job with t's components as its params, in
\* the order of params(...); Ok(None) and Err(_) start no job
ConvertEvent ==
    /\ pc = "event"
    /\ LET r == convert_event_to_inputs(event[1]) IN
       /\ inputs' = r.ret
       /\ IF r.panic
          THEN pc' = "preprocessor_panicked" /\ UNCHANGED params
          ELSE IF r.ret[1].ok /\ r.ret[1].val[1] # <<>>
          THEN /\ pc' = "start"
               /\ task_created_block' = r.ret[1].val[1][1][1]
               /\ quorum_numbers' = r.ret[1].val[1][1][2]
               /\ quorum_threshold_percentage' = r.ret[1].val[1][1][3]
               /\ task_index' = r.ret[1].val[1][1][4]
          ELSE pc' = "filtered" /\ UNCHANGED params
    /\ UNCHANGED <<event, parked, keystore, http, fetched, result_hash,
                   task_response, bn254_public, bn254_secret, bls_key_pair,
                   operator_id, encoded, msg_hash, signed_response, aggregator,
                   gets, submits, send_result, stages, ret>>

InitEvent ==
    /\ pc = "event"
    /\ event \in { <<ev>> : ev \in Events }
    /\ inputs = <<>>
    /\ parked = <<>>
    /\ task_created_block = 0
    /\ quorum_numbers = <<>>
    /\ quorum_threshold_percentage = 0
    /\ task_index = 0
    /\ keystore \in { ks \in Keystores : Len(ks) = 1 }
    /\ aggregator = <<>>
    /\ InitLocals

NextEvent ==
    \/ ConvertEvent
    \/ Next

SpecEvent == InitEvent /\ [][NextEvent]_vars

----------------------------------------------------------------------------
(* Two runs of the job executed concurrently by the runtime: the runtime   *)
(* suspends the running one at any step and resumes the other.  Each run   *)
(* owns its locals; the keystore and the aggregator are shared.            *)

\* the locals of the running run, as a record
Current ==
    [pc |-> pc, task_created_block |-> task_created_block,
     quorum_numbers |-> quorum_numbers,
     quorum_threshold_percentage |-> quorum_threshold_percentage,
     task_index |-> task_index, http |-> http, fetched |-> fetched,
     result_hash |-> result_hash, task_response |-> task_response,
     bn254_public |-> bn254_public, bn254_secret |-> bn254_secret,
     bls_key_pair |-> bls_key_pair, operator_id |-> operator_id,
     encoded |-> encoded, msg_hash |-> msg_hash,
     signed_response |-> signed_response, gets |-> gets, submits |-> submits,
     send_result |-> send_result, stages |-> stages, ret |-> ret]

\* the locals of a run that has not started, with its parameters
FreshRun(block, quorums, threshold, idx) ==
    [pc |-> "start", task_created_block |-> block, quorum_numbers |-> quorums,
     quorum_threshold_percentage |-> threshold, task_index |-> idx,
     http |-> <<>>, fetched |-> <<>>, result_hash |-> <<>>,
     task_response |-> <<>>, bn254_public |-> <<>>, bn254_secret |-> <<>>,
     bls_key_pair |-> <<>>, operator_id |-> <<>>, encoded |-> <<>>,
     msg_hash |-> <<>>, signed_response |-> <<>>, gets |-> 0, submits |-> 0,
     send_result |-> <<>>, stages |-> <<>>, ret |-> <<>>]

\* the locals of r become those of the running run, all but the commitment
ResumeAllButCommitment(r) ==
    /\ pc' = r.pc
    /\ task_created_block' = r.task_created_block
    /\ quorum_numbers' = r.quorum_numbers
    /\ quorum_threshold_percentage' = r.quorum_threshold_percentage
    /\ task_index' = r.task_index
    /\ http' = r.http
    /\ fetched' = r.fetched
    /\ result_hash' = result_hash
    /\ task_response' = r.task_response
    /\ bn254_public' = r.bn254_public
    /\ bn254_secret' = r.bn254_secret
    /\ bls_key_pair' = r.bls_key_pair
    /\ operator_id' = r.operator_id
    /\ encoded' = r.encoded
    /\ msg_hash' = r.msg_hash
    /\ signed_response' = r.signed_response
    /\ gets' = r.gets
    /\ submits' = r.submits
    /\ send_result' = r.send_result
    /\ stages' = r.stages
    /\ ret' = r.ret

\* the locals of r become those of the running run
Resume(r) ==
    /\ pc' = r.pc
    /\ task_created_block' = r.task_created_block
    /\ quorum_numbers' = r.quorum_numbers
    /\ quorum_threshold_percentage' = r.quorum_threshold_percentage
    /\ task_index' = r.task_index
    /\ http' = r.http
    /\ fetched' = r.fetched
    /\ result_hash' = r.result_hash
    /\ task_response' = r.task_response
    /\ bn254_public' = r.bn254_public
    /\ bn254_secret' = r.bn254_secret
    /\ bls_key_pair' = r.bls_key_pair
    /\ operator_id' = r.operator_id
    /\ encoded' = r.encoded
    /\ msg_hash' = r.msg_hash
    /\ signed_response' = r.signed_response
    /\ gets' = r.gets
    /\ submits' = r.submits
    /\ send_result' = r.send_result
    /\ stages' = r.stages
    /\ ret' = r.ret

\* the runtime suspends the running run and resumes the other one; the
\* keystore and the aggregator are not part of either run
Switch ==
    /\ parked # <<>>
    /\ parked' = <<Current>>
    /\ Resume(parked[1])
    /\ UNCHANGED <<event, inputs, keystore, aggregator>>

\* the answers the concurrent runs are run against: a timeout, an empty
\* list and one record
ConcHttpOutcomes ==
    { o \in JobHttpOutcomes :
        \/ o.kind = "timeout"
        \/ /\ o.kind = "response" /\ o.status = 200 /\ o.parsable
           /\ Len(o.envelope.data) <= 1
           /\ \A i \in 1..Len(o.envelope.data) : o.envelope.data[i].hash = <<97>> }

\* the data source answers the pending GET of the running run
AnswerConc ==
    /\ pc = "fetching"
    /\ \E o \in ConcHttpOutcomes : GetAnswered(o)

InitConc ==
    /\ pc = "start"
    /\ task_created_block = 0
    /\ quorum_numbers = <<0>>
    /\ quorum_threshold_percentage = 67
    /\ task_index \in {0, 42}
    /\ parked \in { <<FreshRun(block, q[1], q[2], idx)>> :
                      block \in {0, 7}, q \in {<<<<0>>, 67>>, <<<<0, 1>>, 100>>},
                      idx \in {0, 42} }
    /\ keystore \in { ks \in Keystores : Len(ks) = 2 }
    /\ aggregator = <<>>
    /\ event = <<>>
    /\ inputs = <<>>
    /\ InitLocals

NextConc ==
    \/ IssueGet
    \/ AnswerConc
    \/ BuildTaskResponse
    \/ FirstLocal
    \/ ExposeSecret
    \/ \E accepted \in BOOLEAN : NewKeyPair(accepted)
    \/ DeriveOperatorId
    \/ HashResponse
    \/ SignResponse
    \/ SendSigned
    \/ \E ok \in BOOLEAN : SendAnswered(ok)
    \/ Switch

SpecConc == InitConc /\ [][NextConc]_vars

----------------------------------------------------------------------------
(* The job run with every key pair of AllKeyPairs as the only local key.   *)

InitIdentity ==
    /\ pc = "start"
    /\ task_created_block = 0
    /\ quorum_numbers = <<0>>
    /\ quorum_threshold_percentage = 67
    /\ task_index = 0
    /\ keystore \in { <<KeyEntry(k)>> : k \in AllKeyPairs }
    /\ aggregator = <<>>
    /\ event = <<>>
    /\ inputs = <<>>
    /\ parked = <<>>
    /\ InitLocals

SpecIdentity == InitIdentity /\ [][Next]_vars

----------------------------------------------------------------------------
(* Properties of the run. *)

\* the run has ended: it returned a code, or it aborted
Terminated == pc \in {"returned", "panicked"}

\* every stage of the run succeeded
AllStagesOk ==
    /\ fetched # <<>> /\ fetched[1].ok
    /\ bn254_secret # <<>>
    /\ bls_key_pair # <<>>
    /\ send_result = <<TRUE>>

\* C1: a run that has ended returned 1 exactly when the fetch succeeded, the
\* secret was obtained, the key pair was built and the submission succeeded,
\* and returned 0 in every other case; no other value is returned.
C1_OutcomeCode ==
    Terminated =>
        /\ ret \in {<<0>>, <<1>>}
        /\ (ret = <<1>>) <=> AllStagesOk
        /\ (~AllStagesOk) => ret = <<0>>

\* C2: a run that fetched its commitment and finds no local BLS public key
\* ends normally with outcome 0, and no run ends otherwise than by returning
\* 0 or 1.
C2_NoLocalKeyReturnsZero ==
    /\ pc # "panicked"
    /\ (keystore = <<>> /\ result_hash # <<>> /\ pc \notin {"build", "first_local"})
         => (pc = "returned" /\ ret = <<0>>)

\* the data source answered with a status outside 200..299
NonSuccessStatus ==
    /\ http # <<>>
    /\ http[1].kind = "response"
    /\ http[1].status \notin 200..299

\* C3: after a non-2xx answer, whatever its body, the fetch step returned an
\* error, the run has no commitment, submitted nothing and returned 0.
C3_NonSuccessStatusIsError ==
    NonSuccessStatus =>
        /\ ~fetched[1].ok
        /\ result_hash = <<>>
        /\ submits = 0
        /\ pc = "returned" /\ ret = <<0>>

\* C4: the stages of a run complete in the order fetch, build, secret, key
\* pair, operator id, hash, sign, submit, and once the submission has been
\* issued the fetch has succeeded, the secret has been retrieved and the
\* signature has been produced.
C4_StagesInOrder ==
    /\ Len(stages) <= Len(StageOrder)
    /\ stages = SubSeq(StageOrder, 1, Len(stages))
    /\ submits > 0 =>
         /\ fetched # <<>> /\ fetched[1].ok
         /\ bn254_secret # <<>>
         /\ signed_response # <<>>
         /\ aggregator = signed_response

\* C4 witness: the submission has been issued and is pending
C4_Witness == pc = "sending" /\ submits = 1 /\ Len(stages) = Len(StageOrder)

\* C5: the aggregator's submit operation is invoked at most once per run; a
\* submission error ends the run with 0 and no second attempt, and a run
\* that returned 1 made exactly one submission.
C5_SingleSubmission ==
    /\ submits <= 1
    /\ Len(aggregator) = submits
    /\ send_result = <<FALSE>> => (pc = "returned" /\ ret = <<0>> /\ submits = 1)
    /\ ret = <<1>> => submits = 1

\* C5 witness: a run whose only submission failed
C5_Witness == send_result = <<FALSE>> /\ pc = "returned" /\ submits = 1

\* C6: the GET is issued exactly once per run; a failed fetch (transport
\* failure, timeout, body that does not parse) is not retried and leads
\* directly to outcome 0.
C6_SingleGet ==
    /\ gets <= 1
    /\ pc # "start" => gets = 1
    /\ (fetched # <<>> /\ ~fetched[1].ok) =>
         (pc = "returned" /\ ret = <<0>> /\ gets = 1 /\ stages = <<>>)

\* C6 witness: a run ended by a fetch that timed out
C6_Witness ==
    /\ http # <<>> /\ http[1].kind = "timeout"
    /\ pc = "returned" /\ gets = 1

\* the data source answered with a well-formed envelope with no records
EmptyData ==
    /\ http # <<>>
    /\ http[1].kind = "response" /\ http[1].parsable
    /\ http[1].envelope.data = <<>>

\* C9: on a well-formed envelope with an empty `data` list the fetch step
\* succeeds with the digest of the empty byte string, and the fetch does not
\* end the run (a run on such an answer can return 1: C9_Witness).
C9_EmptyDataSucceeds ==
    EmptyData =>
        /\ fetched = <<Ok(keccak256(<<>>))>>
        /\ result_hash = <<keccak256(<<>>)>>
        /\ stages # <<>> /\ stages[1] = "fetch"
        /\ pc = "returned" => (bn254_public # <<>> /\ ret # <<>>)

\* C9 witness: a run on an empty `data` list that signed, submitted and
\* returned 1
C9_Witness ==
    /\ EmptyData
    /\ signed_response # <<>> /\ submits = 1
    /\ pc = "returned" /\ ret = <<1>>

\* C10 as stated: the hashed byte string is 36 bytes, the task index as 4
\* big-endian bytes followed by the 32 bytes of the result hash.
C10_PackedEncoding ==
    encoded # <<>> =>
        /\ Len(encoded[1]) = 36
        /\ SubSeq(encoded[1], 1, 4) = BeBytes(task_index, 4)
        /\ SubSeq(encoded[1], 5, 36) = B256Bytes(result_hash[1])

\* C10 amended: the hashed byte string is 64 bytes: 28 zero bytes, the task
\* index as 4 big-endian bytes, then the 32 bytes of the result hash; the
\* message hash is the digest of exactly these bytes.
C10_AbiEncoding ==
    encoded # <<>> =>
        LET e == encoded[1] IN
        /\ Len(e) = 64
        /\ \A i \in 1..28 : e[i] = 0
        /\ \A i \in 29..32 : e[i] \in 0..255
        /\ e[29] * 16777216 + e[30] * 65536 + e[31] * 256 + e[32] = task_index
        /\ SubSeq(e, 33, 64) = B256Bytes(result_hash[1])
        /\ msg_hash = <<keccak256(e)>>

\* C10 witness: the response of task 42 has been encoded
C10_Witness ==
    /\ encoded # <<>>
    /\ task_index = 42
    /\ SubSeq(encoded[1], 29, 32) = <<0, 0, 0, 42>>

----------------------------------------------------------------------------
(* Properties of the reduction (checked under SpecReduce). *)

\* the data source answered with a well-formed envelope
Parsed == http # <<>> /\ http[1].kind = "response" /\ http[1].parsable

RECURSIVE HashOffset(_, _)
\* number of bytes of the hash strings of the records before record i
HashOffset(data, i) ==
    IF i = 1 THEN 0
    ELSE HashOffset(data, i - 1) + Len(as_bytes(data[i - 1].hash))

\* B is the bytes of the records' hash strings laid end to end in list order
\* and nothing else
IsConcatOfHashes(B, data) ==
    /\ Len(B) = HashOffset(data, Len(data) + 1)
    /\ \A i \in 1..Len(data) :
         \A j \in 1..Len(as_bytes(data[i].hash)) :
            B[HashOffset(data, i) + j] = as_bytes(data[i].hash)[j]

\* the answer o with everything but the order and the hash strings of its
\* records replaced by fixed values
HashesOnly(o) ==
    [o EXCEPT !.envelope =
        ApiResponse(<<>>, <<>>,
                    [i \in 1..Len(o.envelope.data) |->
                        Block(o.envelope.data[i].hash,
                              [number |-> <<>>, timestamp |-> <<>>,
                               transactions_root |-> <<>>,
                               parent_hash |-> <<>>])])]

\* C7: the commitment of a well-formed answer is the digest of the records'
\* hash strings concatenated in server order with no separator, and it is
\* the commitment of any answer with the same ordered hash strings.
C7_CommitmentIsDigestOfHashes ==
    Parsed =>
        /\ fetched # <<>> /\ fetched[1].ok
        /\ IsConcatOfHashes(fetched[1].val[1].preimage, http[1].envelope.data)
        /\ get_calculation(HashesOnly(http[1])) = fetched[1]
        /\ result_hash = fetched[1].val

\* C7 witness: a commitment over two records that differ in their other
\* fields, in an envelope with a non-empty message
C7_Witness ==
    /\ Parsed /\ fetched # <<>>
    /\ Len(http[1].envelope.data) = 2
    /\ http[1].envelope.data[1].number # http[1].envelope.data[2].number
    /\ http[1].envelope.data[1].hash # http[1].envelope.data[2].hash
    /\ http[1].envelope.message # <<>>

\* the hash strings of the records are pairwise distinct
DistinctHashes(data) ==
    \A i, j \in 1..Len(data) : i # j => data[i].hash # data[j].hash

\* the hash strings of the records all have the same number of bytes
SameLengthHashes(data) ==
    \A i, j \in 1..Len(data) :
        Len(as_bytes(data[i].hash)) = Len(as_bytes(data[j].hash))

\* the answer o with its records in the order p
Reordered(o, p) ==
    [o EXCEPT !.envelope.data = [i \in 1..Len(o.envelope.data) |->
                                    o.envelope.data[p[i]]]]

\* every reordering of the fetched records that changes their sequence has
\* a commitment other than the one fetched
EveryReorderingDiffers ==
    \A p \in Permutations(1..Len(http[1].envelope.data)) :
        Reordered(http[1], p) # http[1]
            => get_calculation(Reordered(http[1], p)) # fetched[1]

\* C8 as stated: for two or more records with pairwise distinct hash
\* strings, every reordering that changes the sequence changes the
\* commitment.
C8_OrderSensitiveDistinct ==
    (Parsed /\ fetched # <<>>
       /\ Len(http[1].envelope.data) >= 2
       /\ DistinctHashes(http[1].envelope.data))
    => EveryReorderingDiffers

\* C8 amended: for two or more records whose hash strings are pairwise
\* distinct and all of the same length, every reordering that changes the
\* sequence changes the commitment.
C8_OrderSensitiveFixedLength ==
    (Parsed /\ fetched # <<>>
       /\ Len(http[1].envelope.data) >= 2
       /\ DistinctHashes(http[1].envelope.data)
       /\ SameLengthHashes(http[1].envelope.data))
    => EveryReorderingDiffers

\* C8 witness: a commitment over two records with distinct hash strings of
\* the same length
C8_Witness ==
    /\ Parsed /\ fetched # <<>> /\ fetched[1].ok
    /\ Len(http[1].envelope.data) = 2
    /\ DistinctHashes(http[1].envelope.data)
    /\ SameLengthHashes(http[1].envelope.data)
    /\ Len(http[1].envelope.data[1].hash) = 2

----------------------------------------------------------------------------
(* Properties of what a run leaves behind and hands to the aggregator. *)

\* the fetch step returned an error
FetchFailed == fetched # <<>> /\ ~fetched[1].ok

\* the run returned because the keystore exposed no secret
SecretFailed == pc = "returned" /\ bn254_public # <<>> /\ bn254_secret = <<>>

\* the run returned because the key pair could not be built
KeyPairFailed == pc = "returned" /\ bn254_secret # <<>> /\ bls_key_pair = <<>>

\* nothing has been hashed, signed or handed to the aggregator
NothingSigned ==
    /\ msg_hash = <<>>
    /\ signed_response = <<>>
    /\ submits = 0
    /\ aggregator = <<>>

\* C16: a run ends at its first failure: after a failed fetch the keystore
\* is not read and nothing is signed or submitted; after a missing or
\* unreadable secret or a failed key-pair construction nothing is signed or
\* submitted; a run that returned 0 before the submission left nothing with
\* the aggregator.
C16_TerminalOnFirstFailure ==
    /\ FetchFailed =>
         (pc = "returned" /\ bn254_public = <<>> /\ bn254_secret = <<>>
            /\ bls_key_pair = <<>> /\ NothingSigned)
    /\ SecretFailed => (bls_key_pair = <<>> /\ operator_id = <<>> /\ NothingSigned)
    /\ KeyPairFailed => (operator_id = <<>> /\ NothingSigned)
    /\ (ret = <<0>> /\ send_result = <<>>) => NothingSigned

\* C16 witness: a run that obtained the secret and returned 0 because the
\* key pair could not be built
C16_Witness == KeyPairFailed /\ ret = <<0>> /\ result_hash # <<>>

\* C17: every SignedTaskResponse handed to the aggregator carries the run's
\* task_index and the commitment fetched in the run, and its signature is
\* over the digest of the ABI encoding of that TaskResponse, not over the
\* encoding itself nor over the commitment.
C17_SignedResponseContent ==
    \A i \in 1..Len(aggregator) :
        LET s == aggregator[i] IN
        /\ s.task_response.referenceTaskIndex = task_index
        /\ fetched # <<>> /\ fetched[1].ok
        /\ s.task_response.resultHash = fetched[1].val[1]
        /\ s.signature.message = keccak256(abi_encode(s.task_response))
        /\ s.signature.message # s.task_response.resultHash

\* C17 witness: the aggregator holds the response of task 42 over two records
C17_Witness ==
    /\ Len(aggregator) = 1
    /\ task_index = 42
    /\ Len(http[1].envelope.data) = 2

\* C18: in every SignedTaskResponse handed to the aggregator the operator id
\* is derived from the public key of the key pair whose secret signed, and
\* that secret is the one the keystore holds for its first local public key.
C18_OperatorIdMatchesSigner ==
    \A i \in 1..Len(aggregator) :
        LET s == aggregator[i] IN
        /\ s.operator_id = operator_id_from_key(BlsKeyPair(s.signature.signer))
        /\ bn254_public = <<keystore[1].public>>
        /\ \E j \in 1..Len(keystore) :
              /\ keystore[j].public = keystore[1].public
              /\ keystore[j].secret = s.signature.signer
        /\ bls_key_pair = <<BlsKeyPair(s.signature.signer)>>

\* C18 witness: a response was handed over by a run whose keystore holds two
\* local keys
C18_Witness == Len(aggregator) = 1 /\ Len(keystore) = 2

----------------------------------------------------------------------------
(* Properties of the operator id (checked under SpecIdentity). *)

RECURSIVE BeValue(_)
\* the number a big-endian byte string denotes
BeValue(b) ==
    IF b = <<>> THEN 0
    ELSE BeValue(SubSeq(b, 1, Len(b) - 1)) * 256 + b[Len(b)]

RECURSIVE ByteLen(_)
\* the number of bytes of the shortest big-endian form of n
ByteLen(n) == IF n < 256 THEN 1 ELSE 1 + ByteLen(n \div 256)

\* b is the shortest big-endian byte string of n
IsMinimalBe(b, n) ==
    /\ Len(b) >= 1
    /\ \A i \in 1..Len(b) : b[i] \in 0..255
    /\ Len(b) > 1 => b[1] # 0
    /\ BeValue(b) = n

\* id is the digest of the shortest big-endian bytes of x followed by those
\* of y
IsIdOfCoordinates(id, x, y) ==
    \E k \in 1..(Len(id.preimage) - 1) :
        /\ IsMinimalBe(SubSeq(id.preimage, 1, k), x)
        /\ IsMinimalBe(SubSeq(id.preimage, k + 1, Len(id.preimage)), y)

\* the id derived in the run is derived again alike and is the digest of the
\* x bytes followed by the y bytes
IdIsStableDigest ==
    /\ operator_id_from_key(bls_key_pair[1]) = operator_id[1]
    /\ operator_id_from_key(BlsKeyPair(bn254_secret[1])) = operator_id[1]
    /\ IsIdOfCoordinates(operator_id[1], bls_key_pair[1].pub_key.x,
                         bls_key_pair[1].pub_key.y)

----------------------------------------------------------------------------
(* Properties of the pre-processor (checked under SpecEvent). *)

\* the inputs the claim expects for the event ev
ExpectedInputs(ev) ==
    <<ev.task.taskCreatedBlock, ev.task.quorumNumbers,
      ev.task.quorumThresholdPercentage, ev.taskIndex>>

\* C19: the pre-processor never filters an event out and never returns an
\* error: when the event's quorumThresholdPercentage fits in 8 bits it
\* returns Some((task_created_block, quorum_numbers,
\* quorum_threshold_percentage, task_index)), each the event's field, and the
\* job runs on them; when it does not fit the pre-processor panics.
C19_PreProcessor ==
    (event # <<>> /\ pc # "event") =>
        /\ pc # "filtered"
        /\ IF event[1].task.quorumThresholdPercentage \in 0..255
           THEN /\ pc # "preprocessor_panicked"
                /\ inputs = <<Ok(<<ExpectedInputs(event[1])>>)>>
                /\ params = ExpectedInputs(event[1])
           ELSE /\ pc = "preprocessor_panicked"
                /\ inputs = <<>>

\* C19 witness: the job ran to the end on the inputs of an event with
\* threshold 255 and task index 42
C19_Witness ==
    /\ event # <<>>
    /\ event[1].task.quorumThresholdPercentage = 255
    /\ event[1].taskIndex = 42
    /\ event[1].task.taskCreatedBlock = 7
    /\ pc = "returned" /\ ret = <<1>>

----------------------------------------------------------------------------
(* Properties of two runs (checked under SpecConc). *)

\* the runs r and q got the same task index, the same answer from the data
\* source and the same secret from the keystore
SameInputs(r, q) ==
    /\ r.task_index = q.task_index
    /\ r.http # <<>> /\ r.http = q.http
    /\ r.bn254_secret = q.bn254_secret

\* C11: two runs with the same task_index, the same fetched records and the
\* same secret hand over identical SignedTaskResponse values, and with the
\* same collaborator results return the same outcome, whatever their
\* task_created_block, quorum_numbers and quorum_threshold_percentage.
C11_OtherParamsDoNotMatter ==
    (parked # <<>> /\ SameInputs(Current, parked[1])) =>
        /\ (signed_response # <<>> /\ parked[1].signed_response # <<>>)
             => signed_response = parked[1].signed_response
        /\ (ret # <<>> /\ parked[1].ret # <<>>
              /\ (bls_key_pair = <<>>) = (parked[1].bls_key_pair = <<>>)
              /\ send_result = parked[1].send_result)
             => ret = parked[1].ret

\* C11 witness: two runs alike in task index, records and secret and unlike
\* in the three other parameters both returned 1
C11_Witness ==
    /\ parked # <<>> /\ SameInputs(Current, parked[1])
    /\ task_created_block # parked[1].task_created_block
    /\ quorum_numbers # parked[1].quorum_numbers
    /\ quorum_threshold_percentage # parked[1].quorum_threshold_percentage
    /\ ret = <<1>> /\ parked[1].ret = <<1>>
    /\ Len(aggregator) = 2 /\ aggregator[1] = aggregator[2]

\* the TaskResponse the run r builds when it runs alone
AloneTaskResponse(r) ==
    TaskResponse(r.task_index, get_calculation(r.http[1]).val[1])

\* the SignedTaskResponse the run r hands over when it runs alone
AloneSignedResponse(r) ==
    LET pair == BlsKeyPair(r.bn254_secret[1]) IN
    SignedTaskResponse(AloneTaskResponse(r),
                       sign_message(pair, keccak256(abi_encode(AloneTaskResponse(r)))),
                       operator_id_from_key(pair))

\* the values of run r are those of r running alone on its own fetch,
\* keystore and aggregator results
AsIfAlone(r) ==
    /\ r.task_response # <<>> => r.task_response = <<AloneTaskResponse(r)>>
    /\ r.bn254_secret # <<>> => r.bn254_secret = <<keystore[1].secret>>
    /\ r.signed_response # <<>> => r.signed_response = <<AloneSignedResponse(r)>>
    /\ r.ret # <<>> =>
         r.ret = <<IF r.signed_response # <<>> /\ r.send_result = <<TRUE>>
                   THEN 1 ELSE 0>>
    /\ r.submits <= 1 /\ r.gets <= 1

\* C12: under every interleaving of two concurrent runs each run's
\* TaskResponse, SignedTaskResponse and outcome are those of the run executed
\* alone, and no step changes the keystore.
C12_RunsAreIsolated ==
    /\ [](parked # <<>> => (AsIfAlone(Current) /\ AsIfAlone(parked[1])))
    /\ [][keystore' = keystore]_vars

\* C12 witness: two runs with different task indices and different records,
\* interleaved, have both handed their response over
C12_Witness ==
    /\ parked # <<>>
    /\ task_index # parked[1].task_index
    /\ result_hash # <<>> /\ parked[1].result_hash # <<>>
    /\ result_hash # parked[1].result_hash
    /\ Len(aggregator) = 2
    /\ aggregator[1].task_response # aggregator[2].task_response
    /\ ret = <<1>> /\ parked[1].ret = <<0>>

----------------------------------------------------------------------------
(* Termination (checked under SpecLive). *)

\* C13: every run eventually reaches a terminal outcome: it returns 0 or 1,
\* the two suspension points being bounded by a timeout.
C13_EveryRunReturns == <>(pc = "returned" /\ ret \in {<<0>>, <<1>>})

====
